---- MODULE Spec2Model ----
(***************************************************************************)
(* Model of the wav2ulaw Python harness: test.py (get_wav_info,            *)
(* wav_to_ulaw, benchmark_conversion, the __main__ benchmark script) and   *)
(* play_ulaw.py (play_ulaw).  The Go converter ./wav2ulaw that the harness *)
(* drives is not part of the Python sources; its command-line validation   *)
(* and the mu-law codec are modelled from the written specification.       *)
(*                                                                         *)
(* Python floats are modelled in hundredths (0.95 is 95); str() of them    *)
(* is PyFloatStr.  Byte strings are modelled as sequences of strings.      *)
(***************************************************************************)
EXTENDS Integers, Sequences, FiniteSets, TLC

\* ------------------------------------------------------------- constants

AA_SIMPLE == 0
AA_BUTTERWORTH == 1
AA_BESSEL == 2
AA_CHEBYSHEV == 3

\* Largest channel count of the WAV inputs that are enumerated.
MaxChannels == 2

\* Sample rates of the WAV inputs that are enumerated.
Rates == {8000, 44100}

\* A WAV byte string: unreadable, or a readable file with a rate and a
\* channel count (the sound-file library reports only positive rates).
WavInputs ==
    {[ok |-> FALSE, rate |-> 0, channels |-> 0]}
    \cup {[ok |-> TRUE, rate |-> r, channels |-> c] : r \in Rates, c \in 1..MaxChannels}

NoWav == [ok |-> FALSE, rate |-> 0, channels |-> 0]

\* Defaults of wav_to_ulaw's signature.
SignatureDefaults ==
    [input_sample_rate |-> 0, force_mono |-> TRUE,
     low_pass |-> 3400, high_pass |-> 200, normalize |-> 95,
     compression_ratio |-> 150, compression_threshold |-> 50,
     window_size |-> 64, anti_aliasing_ratio |-> 95,
     anti_aliasing_type |-> AA_SIMPLE, filter_order |-> 2,
     chebyshev_ripple |-> 10]

DEFAULT_CONFIG ==
    [input_sample_rate |-> 0, force_mono |-> TRUE,
     low_pass |-> 3400, high_pass |-> 200, normalize |-> 95,
     compression_ratio |-> 150, compression_threshold |-> 50,
     window_size |-> 12, anti_aliasing_ratio |-> 95,
     anti_aliasing_type |-> AA_BUTTERWORTH, filter_order |-> 4,
     chebyshev_ripple |-> 10]

\* The 'params' of the four TEST_CONFIGS entries, in order.
TEST_CONFIGS ==
    << DEFAULT_CONFIG,
       [input_sample_rate |-> 0, force_mono |-> TRUE,
        low_pass |-> 3400, high_pass |-> 200, normalize |-> 95,
        compression_ratio |-> 120, compression_threshold |-> 50,
        window_size |-> 8, anti_aliasing_ratio |-> 80,
        anti_aliasing_type |-> AA_SIMPLE, filter_order |-> 2,
        chebyshev_ripple |-> 10],
       [input_sample_rate |-> 0, force_mono |-> TRUE,
        low_pass |-> 3400, high_pass |-> 200, normalize |-> 98,
        compression_ratio |-> 130, compression_threshold |-> 60,
        window_size |-> 16, anti_aliasing_ratio |-> 98,
        anti_aliasing_type |-> AA_BESSEL, filter_order |-> 4,
        chebyshev_ripple |-> 10],
       [input_sample_rate |-> 0, force_mono |-> TRUE,
        low_pass |-> 3400, high_pass |-> 200, normalize |-> 99,
        compression_ratio |-> 120, compression_threshold |-> 70,
        window_size |-> 24, anti_aliasing_ratio |-> 99,
        anti_aliasing_type |-> AA_BUTTERWORTH, filter_order |-> 6,
        chebyshev_ripple |-> 10] >>

\* Keyword arguments a direct caller of wav_to_ulaw overrides: the filter
\* family (9 is no family), the order (8 is out of range), the input rate
\* (0 is auto-detect), the mono flag and the ripple.
CallerTypes == {AA_SIMPLE, AA_BUTTERWORTH, AA_BESSEL, AA_CHEBYSHEV, 9}
CallerOrders == {2, 4, 8}
CallerRates == {0, 8000, 16000}
CallerRipples == {10, 50}

CustomConfigs ==
    {[SignatureDefaults EXCEPT !.anti_aliasing_type = t, !.filter_order = o,
                               !.input_sample_rate = r, !.force_mono = m,
                               !.chebyshev_ripple = p] :
        t \in CallerTypes, o \in CallerOrders, r \in CallerRates,
        m \in BOOLEAN, p \in CallerRipples}

\* ------------------------------------------------------------ conversions

\* str() of a Python float given in hundredths: "0.95", "1.5", "1.0".
PyFloatStr(h) ==
    LET ip == h \div 100
        fp == h % 100
    IN  ToString(ip) \o "." \o
        (IF fp % 10 = 0 THEN ToString(fp \div 10)
                        ELSE ToString(fp \div 10) \o ToString(fp % 10))

\* str() of a Python int.
PyIntStr(n) == ToString(n)

\* ------------------------------------------------------------- file names

WavToUlawFiles == {"w_wav", "w_pcm", "w_ulaw"}
InfoFiles == {"i_wav"}
PlayFiles == {"p_ulaw", "p_wav"}

\* os.unlink of a path.
Unlink(files, path) == files \ {path}

NoBytes == << >>
NoPcm == [written |-> FALSE, rate |-> 0, channels |-> 0]
NoData == [channels |-> 0, dtype |-> "none"]
NoResult == [kind |-> "none", exc |-> "none", bytes |-> NoBytes]
NoProc == [launched |-> FALSE, rc |-> 0]

\* ------------------------------------------------- the converter command

\* Mutant of RippleArgs: the ripple option is appended for every family.
RippleArgsAlways(args) ==
    <<"--chebyshev-ripple", PyFloatStr(args.chebyshev_ripple)>>

\* The options appended after the fixed part of the command line.
RippleArgs(args) ==
    IF args.anti_aliasing_type = AA_CHEBYSHEV
    THEN <<"--chebyshev-ripple", PyFloatStr(args.chebyshev_ripple)>>
    ELSE << >>

\* The command line wav_to_ulaw hands to subprocess.run.
BuildCmd(args, rate, inPath, outPath) ==
    << "./wav2ulaw",
       "--input", inPath,
       "--output", outPath,
       "--mode", "wav2ulaw",
       "--sample-rate", PyIntStr(rate),
       "--low-pass", PyIntStr(args.low_pass),
       "--high-pass", PyIntStr(args.high_pass),
       "--normalize", PyFloatStr(args.normalize),
       "--compress-ratio", PyFloatStr(args.compression_ratio),
       "--compress-threshold", PyFloatStr(args.compression_threshold),
       "--window-size", PyIntStr(args.window_size),
       "--anti-aliasing-ratio", PyFloatStr(args.anti_aliasing_ratio),
       "--anti-aliasing-type", PyIntStr(args.anti_aliasing_type),
       "--filter-order", PyIntStr(args.filter_order) >>
    \o RippleArgs(args)

\* The command line play_ulaw hands to subprocess.run for the conversion.
BuildPlayCmd(rate, window, inPath, outPath) ==
    << "./wav2ulaw",
       "--input", inPath,
       "--output", outPath,
       "--mode", "ulaw2wav",
       "--sample-rate", PyIntStr(rate),
       "--window-size", PyIntStr(window) >>

HasFlag(c, flag) == \E k \in 1..Len(c) : c[k] = flag

FlagValue(c, flag) ==
    IF \E k \in 1..(Len(c) - 1) : c[k] = flag
    THEN c[(CHOOSE k \in 1..(Len(c) - 1) : c[k] = flag) + 1]
    ELSE "absent"

\* The converter's validation of its configuration, from the written
\* specification: the family is one of 0..3, the order one of 2, 4, 6, and
\* Chebyshev comes with a ripple.
ConfigOK(c) ==
    /\ FlagValue(c, "--anti-aliasing-type") \in {"0", "1", "2", "3"}
    /\ FlagValue(c, "--filter-order") \in {"2", "4", "6"}
    /\ (FlagValue(c, "--anti-aliasing-type") = "3" => HasFlag(c, "--chebyshev-ripple"))

\* The converter's exit code: 1 for a rejected configuration, 2 for an I/O
\* or format failure, 0 otherwise.
ConverterExit(c, ioFails) ==
    IF ~ConfigOK(c) THEN 1 ELSE IF ioFails THEN 2 ELSE 0

\* The u-law bytes the converter writes: a function of the PCM file it was
\* given and of its parameters (the options after --mode wav2ulaw).
ConverterOutput(pcm, c) ==
    <<PyIntStr(pcm.rate), PyIntStr(pcm.channels)>> \o SubSeq(c, 8, Len(c))

\* Mutant of RunCheck: subprocess.run without check=True.
RunNoCheck(rc) == "none"

\* subprocess.run(..., check=True): a non-zero exit raises.
RunCheck(rc) == IF rc # 0 THEN "CalledProcessError" ELSE "none"

\* Mutant of DetectedRate: the wrong element of get_wav_info's tuple.
DetectedChannels(info) == info[2]

\* detected_rate, _, _ = get_wav_info(wav_bytes)
DetectedRate(info) == info[1]

\* sf.info(path): (samplerate, channels) of a readable file.
SfInfo(wav) == <<wav.rate, wav.channels>>

\* Mutant of Caught: the handler catches only a failed exit.
CaughtCalledProcessError(exc) == exc = "CalledProcessError"

\* except FileNotFoundError: of play_ulaw.
Caught(exc) == exc = "FileNotFoundError"

\* ------------------------------------------------------------------ state

VARIABLES
    env,         \* which external programs are installed
    fs,          \* the temporary files that exist
    \* the frame of wav_to_ulaw
    wpc,         \* position in wav_to_ulaw
    wcaller,     \* who called it: "api" or "main"
    worigin,     \* how the keyword arguments were built
    wargs,       \* the keyword arguments after defaults
    wwav,        \* wav_bytes
    wrate,       \* the local input_sample_rate
    wdata,       \* the local data array: channels and dtype
    wsr,         \* the local samplerate returned by sf.read
    pcmFile,     \* content of temp_pcm_path
    cmd,         \* the local cmd
    wproc,       \* the converter process: launched, exit code
    ulawFile,    \* content of temp_ulaw_path
    wexc,        \* the exception in flight
    wret,        \* the local ulaw_data
    wlog,        \* the processing steps done so far in this call
    wres,        \* the outcome of the call once it has ended
    \* the frame of get_wav_info
    ipc, icaller, iwav, ires,
    \* the frame of play_ulaw
    ppc, pcaller, pargs, pconv, pplay, pafplay, pexc, pres,
    \* the frame of the benchmark script
    mpc, wav_data, sample_rate, idx, results, ulaw_data, outputs,
    \* the companding codec
    cpc, sample, code, decoded

wvars == <<wpc, wcaller, worigin, wargs, wwav, wrate, wdata, wsr, pcmFile, cmd,
           wproc, ulawFile, wexc, wret, wlog, wres>>
ivars == <<ipc, icaller, iwav, ires>>
pvars == <<ppc, pcaller, pargs, pconv, pplay, pafplay, pexc, pres>>
mvars == <<mpc, wav_data, sample_rate, idx, results, ulaw_data, outputs>>
cvars == <<cpc, sample, code, decoded>>
vars == <<env, fs, wvars, ivars, pvars, mvars, cvars>>

Envs == [converter : {"present", "missing"},
         play : {"present", "missing"},
         afplay : {"present", "missing"}]

NoInfo == [kind |-> "none", exc |-> "none", info |-> <<0, 0>>]
NoPlayArgs == [bytes |-> NoBytes, sample_rate |-> 0, window_size |-> 0]

WIdle ==
    /\ wpc = "idle" /\ wcaller = "none" /\ worigin = "none"
    /\ wargs = SignatureDefaults /\ wwav = NoWav /\ wrate = 0
    /\ wdata = NoData /\ wsr = 0 /\ pcmFile = NoPcm /\ cmd = << >>
    /\ wproc = NoProc /\ ulawFile = NoBytes /\ wexc = "none"
    /\ wret = NoBytes /\ wlog = << >> /\ wres = NoResult

IIdle == ipc = "idle" /\ icaller = "none" /\ iwav = NoWav /\ ires = NoInfo

PIdle ==
    /\ ppc = "idle" /\ pcaller = "none" /\ pargs = NoPlayArgs
    /\ pconv = "not_run" /\ pplay = "not_run" /\ pafplay = "not_run"
    /\ pexc = "none" /\ pres = NoResult

MIdle ==
    /\ mpc = "idle" /\ wav_data = NoWav /\ sample_rate = 0 /\ idx = 0
    /\ results = << >> /\ ulaw_data = NoBytes /\ outputs = << >>

CodecOff == cpc = "off" /\ sample = 0 /\ code = 0 /\ decoded = 0

Init ==
    /\ env \in Envs
    /\ fs = {}
    /\ WIdle /\ IIdle /\ PIdle /\ MIdle /\ CodecOff

AllIdle == wpc = "idle" /\ ipc = "idle" /\ ppc = "idle" /\ mpc = "idle"

\* ------------------------------------------------------------ get_wav_info

\* Entry of get_wav_info: the temporary file is created and written.
InfoEnter(wav, caller) ==
    /\ ipc = "idle"
    /\ ipc' = "try"
    /\ icaller' = caller
    /\ iwav' = wav
    /\ ires' = NoInfo
    /\ fs' = fs \cup InfoFiles

\* A direct call of get_wav_info.
ApiGetWavInfo ==
    /\ AllIdle
    /\ \E wav \in WavInputs : InfoEnter(wav, "api")
    /\ UNCHANGED <<env, wvars, pvars, mvars, cvars>>

\* sf.info and the return statement inside the try block.
InfoRead ==
    /\ ipc = "try"
    /\ ires' = IF iwav.ok
               THEN [kind |-> "return", exc |-> "none", info |-> SfInfo(iwav)]
               ELSE [kind |-> "raise", exc |-> "SoundFileError", info |-> <<0, 0>>]
    /\ ipc' = "finally"
    /\ UNCHANGED <<env, fs, icaller, iwav, wvars, pvars, mvars, cvars>>

\* The finally block of get_wav_info.
InfoFinally ==
    /\ ipc = "finally"
    /\ fs' = Unlink(fs, "i_wav")
    /\ ipc' = "done"
    /\ UNCHANGED <<env, icaller, iwav, ires, wvars, pvars, mvars, cvars>>

InfoLeave == ipc' = "idle" /\ icaller' = "none" /\ iwav' = NoWav /\ ires' = NoInfo

ApiGetWavInfoReturn ==
    /\ ipc = "done" /\ icaller = "api"
    /\ InfoLeave
    /\ UNCHANGED <<env, fs, wvars, pvars, mvars, cvars>>

\* ------------------------------------------------------------- wav_to_ulaw

\* Entry of wav_to_ulaw: the three temporary files are created, the WAV one
\* holding wav_bytes, the other two empty.
WavToUlawEnter(wav, args, origin, caller) ==
    /\ wpc = "idle"
    /\ wpc' = "detect"
    /\ wcaller' = caller
    /\ worigin' = origin
    /\ wargs' = args
    /\ wwav' = wav
    /\ wrate' = args.input_sample_rate
    /\ wdata' = NoData /\ wsr' = 0 /\ pcmFile' = NoPcm /\ cmd' = << >>
    /\ wproc' = NoProc /\ ulawFile' = NoBytes /\ wexc' = "none"
    /\ wret' = NoBytes /\ wlog' = << >> /\ wres' = NoResult
    /\ fs' = fs \cup WavToUlawFiles

\* A direct call of wav_to_ulaw: with no keyword argument, with
\* **DEFAULT_CONFIG, or with keyword arguments of the caller's own.
ApiWavToUlaw ==
    /\ AllIdle
    /\ \E wav \in WavInputs :
        \E call \in ({<<"signature", SignatureDefaults>>,
                      <<"DEFAULT_CONFIG", DEFAULT_CONFIG>>}
                     \cup {<<"custom", a>> : a \in CustomConfigs}) :
            WavToUlawEnter(wav, call[2], call[1], "api")
    /\ UNCHANGED <<env, ivars, pvars, mvars, cvars>>

\* if input_sample_rate == 0: the call of get_wav_info.
WDetect ==
    /\ wpc = "detect"
    /\ IF wrate = 0
       THEN /\ InfoEnter(wwav, "wav_to_ulaw")
            /\ wpc' = "wait_info"
       ELSE /\ wpc' = "read"
            /\ UNCHANGED <<fs, ivars>>
    /\ UNCHANGED <<env, wcaller, worigin, wargs, wwav, wrate, wdata, wsr, pcmFile,
                   cmd, wproc, ulawFile, wexc, wret, wlog, wres, pvars, mvars, cvars>>

\* get_wav_info returns or raises into wav_to_ulaw's try block.
WInfoReturn ==
    /\ wpc = "wait_info" /\ ipc = "done" /\ icaller = "wav_to_ulaw"
    /\ IF ires.kind = "return"
       THEN /\ wrate' = DetectedRate(ires.info)
            /\ wpc' = "read"
            /\ UNCHANGED wexc
       ELSE /\ wexc' = ires.exc
            /\ wpc' = "finally"
            /\ UNCHANGED wrate
    /\ InfoLeave
    /\ UNCHANGED <<env, fs, wcaller, worigin, wargs, wwav, wdata, wsr, pcmFile,
                   cmd, wproc, ulawFile, wret, wlog, wres, pvars, mvars, cvars>>

\* data, samplerate = sf.read(temp_wav_path)
WRead ==
    /\ wpc = "read"
    /\ IF wwav.ok
       THEN /\ wdata' = [channels |-> wwav.channels, dtype |-> "float64"]
            /\ wsr' = wwav.rate
            /\ wlog' = Append(wlog, "read")
            /\ wpc' = "mono"
            /\ UNCHANGED wexc
       ELSE /\ wexc' = "SoundFileError"
            /\ wpc' = "finally"
            /\ UNCHANGED <<wdata, wsr, wlog>>
    /\ UNCHANGED <<env, fs, wcaller, worigin, wargs, wwav, wrate, pcmFile, cmd,
                   wproc, ulawFile, wret, wres, ivars, pvars, mvars, cvars>>

\* if force_mono and len(data.shape) > 1: data = data.mean(axis=1)
WMono ==
    /\ wpc = "mono"
    /\ IF wargs.force_mono /\ wdata.channels > 1
       THEN /\ wdata' = [wdata EXCEPT !.channels = 1]
            /\ wlog' = Append(wlog, "downmix")
       ELSE UNCHANGED <<wdata, wlog>>
    /\ wpc' = "scale"
    /\ UNCHANGED <<env, fs, wcaller, worigin, wargs, wwav, wrate, wsr, pcmFile, cmd,
                   wproc, ulawFile, wexc, wret, wres, ivars, pvars, mvars, cvars>>

\* data = data * 32767; data = data.astype('int16')
WScale ==
    /\ wpc = "scale"
    /\ wdata' = [wdata EXCEPT !.dtype = "int16"]
    /\ wlog' = Append(wlog, "rescale")
    /\ wpc' = "write"
    /\ UNCHANGED <<env, fs, wcaller, worigin, wargs, wwav, wrate, wsr, pcmFile, cmd,
                   wproc, ulawFile, wexc, wret, wres, ivars, pvars, mvars, cvars>>

\* sf.write(temp_pcm_path, data, samplerate, subtype='PCM_16')
WWritePcm ==
    /\ wpc = "write"
    /\ pcmFile' = [written |-> TRUE, rate |-> wsr, channels |-> wdata.channels]
    /\ wlog' = Append(wlog, "write_pcm")
    /\ wpc' = "cmd"
    /\ UNCHANGED <<env, fs, wcaller, worigin, wargs, wwav, wrate, wdata, wsr, cmd,
                   wproc, ulawFile, wexc, wret, wres, ivars, pvars, mvars, cvars>>

\* cmd = [...] and the extension for Chebyshev.
WBuildCmd ==
    /\ wpc = "cmd"
    /\ cmd' = BuildCmd(wargs, wrate, "w_pcm", "w_ulaw")
    /\ wpc' = "run"
    /\ UNCHANGED <<env, fs, wcaller, worigin, wargs, wwav, wrate, wdata, wsr, pcmFile,
                   wproc, ulawFile, wexc, wret, wlog, wres, ivars, pvars, mvars, cvars>>

\* subprocess.run(cmd, check=True): the converter is missing, or runs and
\* exits; on exit 0 it has written the u-law file.
WRun ==
    /\ wpc = "run"
    /\ IF env.converter = "missing"
       THEN /\ wexc' = "FileNotFoundError"
            /\ wpc' = "finally"
            /\ UNCHANGED <<wproc, ulawFile>>
       ELSE \E ioFails \in BOOLEAN :
            LET rc == ConverterExit(cmd, ioFails)
                exc == RunCheck(rc)
            IN  /\ wproc' = [launched |-> TRUE, rc |-> rc]
                /\ ulawFile' = IF rc = 0 THEN ConverterOutput(pcmFile, cmd) ELSE ulawFile
                /\ wexc' = exc
                /\ wpc' = IF exc = "none" THEN "readout" ELSE "finally"
    /\ UNCHANGED <<env, fs, wcaller, worigin, wargs, wwav, wrate, wdata, wsr, pcmFile,
                   cmd, wret, wlog, wres, ivars, pvars, mvars, cvars>>

\* with open(temp_ulaw_path, 'rb') as f: ulaw_data = f.read(); return ulaw_data
WReadOut ==
    /\ wpc = "readout"
    /\ wret' = ulawFile
    /\ wpc' = "finally"
    /\ UNCHANGED <<env, fs, wcaller, worigin, wargs, wwav, wrate, wdata, wsr, pcmFile,
                   cmd, wproc, ulawFile, wexc, wlog, wres, ivars, pvars, mvars, cvars>>

\* Mutant of WFinally: the clean-up runs after the try block instead of in
\* a finally clause, so an exception skips it.
WCleanupAfterTry ==
    /\ wpc = "finally"
    /\ fs' = IF wexc = "none"
             THEN Unlink(Unlink(Unlink(fs, "w_wav"), "w_pcm"), "w_ulaw")
             ELSE fs
    /\ wres' = IF wexc = "none"
               THEN [kind |-> "return", exc |-> "none", bytes |-> wret]
               ELSE [kind |-> "raise", exc |-> wexc, bytes |-> NoBytes]
    /\ wpc' = "done"
    /\ UNCHANGED <<env, wcaller, worigin, wargs, wwav, wrate, wdata, wsr, pcmFile,
                   cmd, wproc, ulawFile, wexc, wret, wlog, ivars, pvars, mvars, cvars>>

\* The finally block of wav_to_ulaw, then the return or the raise.
WFinally ==
    /\ wpc = "finally"
    /\ fs' = Unlink(Unlink(Unlink(fs, "w_wav"), "w_pcm"), "w_ulaw")
    /\ wres' = IF wexc = "none"
               THEN [kind |-> "return", exc |-> "none", bytes |-> wret]
               ELSE [kind |-> "raise", exc |-> wexc, bytes |-> NoBytes]
    /\ wpc' = "done"
    /\ UNCHANGED <<env, wcaller, worigin, wargs, wwav, wrate, wdata, wsr, pcmFile,
                   cmd, wproc, ulawFile, wexc, wret, wlog, ivars, pvars, mvars, cvars>>

WavToUlawLeave ==
    /\ wpc' = "idle" /\ wcaller' = "none" /\ worigin' = "none"
    /\ wargs' = SignatureDefaults /\ wwav' = NoWav /\ wrate' = 0
    /\ wdata' = NoData /\ wsr' = 0 /\ pcmFile' = NoPcm /\ cmd' = << >>
    /\ wproc' = NoProc /\ ulawFile' = NoBytes /\ wexc' = "none"
    /\ wret' = NoBytes /\ wlog' = << >> /\ wres' = NoResult

ApiWavToUlawReturn ==
    /\ wpc = "done" /\ wcaller = "api"
    /\ WavToUlawLeave
    /\ UNCHANGED <<env, fs, ivars, pvars, mvars, cvars>>

\* --------------------------------------------------------------- play_ulaw

\* Byte strings a direct caller plays: empty, or a converter output.
PlayInputs ==
    {NoBytes,
     ConverterOutput([written |-> TRUE, rate |-> 8000, channels |-> 1],
                     BuildCmd(SignatureDefaults, 8000, "w_pcm", "w_ulaw"))}

\* Sample rates and window sizes a direct caller passes to play_ulaw; the
\* first of each is the default of the signature.
PlayRates == {8000, 44100}
PlayWindows == {32, 12}

\* Entry of play_ulaw: the u-law file is created and written, the WAV file
\* is created empty.
PlayEnter(bytes, rate, window, caller) ==
    /\ ppc = "idle"
    /\ ppc' = "convert"
    /\ pcaller' = caller
    /\ pargs' = [bytes |-> bytes, sample_rate |-> rate, window_size |-> window]
    /\ pconv' = "not_run" /\ pplay' = "not_run" /\ pafplay' = "not_run"
    /\ pexc' = "none" /\ pres' = NoResult
    /\ fs' = fs \cup PlayFiles

\* A direct call of play_ulaw.
ApiPlayUlaw ==
    /\ AllIdle
    /\ \E bytes \in PlayInputs, rate \in PlayRates, window \in PlayWindows :
        PlayEnter(bytes, rate, window, "api")
    /\ UNCHANGED <<env, wvars, ivars, mvars, cvars>>

\* subprocess.run(..., check=True) of play_ulaw: a non-zero exit raises.
PlayRunCheck(rc) == IF rc # 0 THEN "CalledProcessError" ELSE "none"

\* Where an exception raised inside play_ulaw's try block goes: into the
\* except clause, or past it to the finally block.
PlayRaise(exc) == IF Caught(exc) THEN "fallback" ELSE "finally"

\* The ulaw2wav conversion: the first subprocess.run of the try block.
PConvert ==
    /\ ppc = "convert"
    /\ IF env.converter = "missing"
       THEN /\ pconv' = "missing"
            /\ ppc' = PlayRaise("FileNotFoundError")
            /\ pexc' = IF Caught("FileNotFoundError") THEN "none" ELSE "FileNotFoundError"
       ELSE \E fails \in BOOLEAN :
            LET exc == PlayRunCheck(IF fails THEN 1 ELSE 0)
            IN  /\ pconv' = IF fails THEN "failed" ELSE "ok"
                /\ ppc' = IF exc = "none" THEN "play" ELSE PlayRaise(exc)
                /\ pexc' = IF exc = "none" \/ Caught(exc) THEN "none" ELSE exc
    /\ UNCHANGED <<env, fs, pcaller, pargs, pplay, pafplay, pres,
                   wvars, ivars, mvars, cvars>>

\* The sox player: the second subprocess.run of the try block.
PPlay ==
    /\ ppc = "play"
    /\ IF env.play = "missing"
       THEN /\ pplay' = "missing"
            /\ ppc' = PlayRaise("FileNotFoundError")
            /\ pexc' = IF Caught("FileNotFoundError") THEN "none" ELSE "FileNotFoundError"
       ELSE \E fails \in BOOLEAN :
            LET exc == PlayRunCheck(IF fails THEN 1 ELSE 0)
            IN  /\ pplay' = IF fails THEN "failed" ELSE "ok"
                /\ ppc' = IF exc = "none" THEN "finally" ELSE PlayRaise(exc)
                /\ pexc' = IF exc = "none" \/ Caught(exc) THEN "none" ELSE exc
    /\ UNCHANGED <<env, fs, pcaller, pargs, pconv, pafplay, pres,
                   wvars, ivars, mvars, cvars>>

\* The except clause: afplay on the WAV file; what it raises propagates.
PFallback ==
    /\ ppc = "fallback"
    /\ IF env.afplay = "missing"
       THEN /\ pafplay' = "missing"
            /\ pexc' = "FileNotFoundError"
       ELSE \E fails \in BOOLEAN :
            /\ pafplay' = IF fails THEN "failed" ELSE "ok"
            /\ pexc' = PlayRunCheck(IF fails THEN 1 ELSE 0)
    /\ ppc' = "finally"
    /\ UNCHANGED <<env, fs, pcaller, pargs, pconv, pplay, pres,
                   wvars, ivars, mvars, cvars>>

\* The finally block of play_ulaw, then the return or the raise.
PFinally ==
    /\ ppc = "finally"
    /\ fs' = Unlink(Unlink(fs, "p_wav"), "p_ulaw")
    /\ pres' = IF pexc = "none"
               THEN [kind |-> "return", exc |-> "none", bytes |-> NoBytes]
               ELSE [kind |-> "raise", exc |-> pexc, bytes |-> NoBytes]
    /\ ppc' = "done"
    /\ UNCHANGED <<env, pcaller, pargs, pconv, pplay, pafplay, pexc,
                   wvars, ivars, mvars, cvars>>

PlayLeave ==
    /\ ppc' = "idle" /\ pcaller' = "none" /\ pargs' = NoPlayArgs
    /\ pconv' = "not_run" /\ pplay' = "not_run" /\ pafplay' = "not_run"
    /\ pexc' = "none" /\ pres' = NoResult

ApiPlayUlawReturn ==
    /\ ppc = "done" /\ pcaller = "api"
    /\ PlayLeave
    /\ UNCHANGED <<env, fs, wvars, ivars, mvars, cvars>>

\* ---------------------------------------------------- the benchmark script

MainLeave ==
    /\ mpc' = "idle" /\ wav_data' = NoWav /\ sample_rate' = 0 /\ idx' = 0
    /\ results' = << >> /\ ulaw_data' = NoBytes /\ outputs' = << >>

\* wav_data = f.read(); sample_rate, channels, bit_depth = get_wav_info(wav_data)
MainStart ==
    /\ AllIdle
    /\ \E wav \in WavInputs :
        /\ wav_data' = wav
        /\ InfoEnter(wav, "main")
    /\ mpc' = "info"
    /\ UNCHANGED <<env, sample_rate, idx, results, ulaw_data, outputs,
                   wvars, pvars, cvars>>

\* get_wav_info returns into the script, or its exception ends the script.
MainInfoReturn ==
    /\ mpc = "info" /\ ipc = "done" /\ icaller = "main"
    /\ IF ires.kind = "return"
       THEN /\ sample_rate' = ires.info[1]
            /\ idx' = 1
            /\ mpc' = "convert"
            /\ UNCHANGED <<wav_data, results, ulaw_data, outputs>>
       ELSE MainLeave
    /\ InfoLeave
    /\ UNCHANGED <<env, fs, wvars, pvars, cvars>>

\* for config in TEST_CONFIGS: benchmark_conversion(wav_data, **config['params'])
MainConvert ==
    /\ mpc = "convert"
    /\ WavToUlawEnter(wav_data, TEST_CONFIGS[idx],
                      IF idx = 1 THEN "DEFAULT_CONFIG" ELSE "TEST_CONFIGS", "main")
    /\ mpc' = "converting"
    /\ UNCHANGED <<env, wav_data, sample_rate, idx, results, ulaw_data, outputs,
                   ivars, pvars, cvars>>

\* The rest of the loop body: ulaw_data is rebound, params gets the detected
\* rate, results grows by one entry.  outputs remembers, per entry of
\* results, the bytes its conversion returned (the script keeps only the
\* size).
MainConvertReturn ==
    /\ mpc = "converting" /\ wpc = "done" /\ wcaller = "main"
    /\ IF wres.kind = "return"
       THEN /\ ulaw_data' = wres.bytes
            /\ outputs' = Append(outputs, wres.bytes)
            /\ results' = Append(results,
                    [size |-> Len(wres.bytes),
                     params |-> IF wargs.input_sample_rate = 0
                                THEN [wargs EXCEPT !.input_sample_rate = sample_rate]
                                ELSE wargs])
            /\ idx' = IF idx < Len(TEST_CONFIGS) THEN idx + 1 ELSE 1
            /\ mpc' = IF idx < Len(TEST_CONFIGS) THEN "convert" ELSE "play"
            /\ UNCHANGED <<wav_data, sample_rate>>
       ELSE MainLeave
    /\ WavToUlawLeave
    /\ UNCHANGED <<env, fs, ivars, pvars, cvars>>

\* for r in results: play_ulaw(ulaw_data, sample_rate=44100,
\*                             window_size=r['params']['window_size'])
MainPlay ==
    /\ mpc = "play"
    /\ PlayEnter(ulaw_data, 44100, results[idx].params.window_size, "main")
    /\ mpc' = "playing"
    /\ UNCHANGED <<env, wav_data, sample_rate, idx, results, ulaw_data, outputs,
                   wvars, ivars, cvars>>

\* play_ulaw returns into the loop, or its exception ends the script.
MainPlayReturn ==
    /\ mpc = "playing" /\ ppc = "done" /\ pcaller = "main"
    /\ IF pres.kind = "return" /\ idx < Len(results)
       THEN /\ idx' = idx + 1
            /\ mpc' = "play"
            /\ UNCHANGED <<wav_data, sample_rate, results, ulaw_data, outputs>>
       ELSE MainLeave
    /\ PlayLeave
    /\ UNCHANGED <<env, fs, wvars, ivars, cvars>>

\* ------------------------------------------------------- companding codec

\* The range of a 16-bit linear PCM sample.
PcmMin == -32768
PcmMax == 32767

\* The bias of the law (0x84) and the largest magnitude it encodes.
BIAS == 132
CLIP == 32635

Pow2(n) == 2 ^ n

Abs(n) == IF n < 0 THEN -n ELSE n

\* The segment (0..7) of a biased magnitude in 132..32767: the position of
\* its highest set bit, less 7.
Segment(b) == CHOOSE e \in 0..7 : b \div Pow2(e + 7) = 1

\* The quantization step of a segment, in linear units.
Step(e) == Pow2(e + 3)

\* encode: sign, 3-bit segment, 4-bit mantissa, all bits inverted.
MuLawEncode(x) ==
    LET sign == IF x < 0 THEN 128 ELSE 0
        mag == (IF Abs(x) > CLIP THEN CLIP ELSE Abs(x)) + BIAS
        e == Segment(mag)
        m == (mag \div Pow2(e + 3)) % 16
    IN  255 - (sign + 16 * e + m)

\* The segment field of a u-law byte.
SegmentOf(u) == ((255 - u) \div 16) % 8

\* Mutant of MuLawDecode: the bias is not taken off again.
MuLawDecodeKeepsBias(u) ==
    LET v == 255 - u
        e == (v \div 16) % 8
        m == v % 16
        t == (m * 8 + BIAS) * Pow2(e)
    IN  IF v \div 128 = 1 THEN -t ELSE t

\* decode: the midpoint of the quantization interval, less the bias.
MuLawDecode(u) ==
    LET v == 255 - u
        e == (v \div 16) % 8
        m == v % 16
        t == (m * 8 + BIAS) * Pow2(e) - BIAS
    IN  IF v \div 128 = 1 THEN -t ELSE t

CodecEncode ==
    /\ cpc = "in"
    /\ code' = MuLawEncode(sample)
    /\ cpc' = "encoded"
    /\ UNCHANGED <<env, fs, wvars, ivars, pvars, mvars, sample, decoded>>

CodecDecode ==
    /\ cpc = "encoded"
    /\ decoded' = MuLawDecode(code)
    /\ cpc' = "decoded"
    /\ UNCHANGED <<env, fs, wvars, ivars, pvars, mvars, sample, code>>

\* ---------------------------------------------------------- specifications

Next ==
    \/ ApiGetWavInfo \/ InfoRead \/ InfoFinally \/ ApiGetWavInfoReturn
    \/ ApiWavToUlaw \/ WDetect \/ WInfoReturn \/ WRead \/ WMono \/ WScale
    \/ WWritePcm \/ WBuildCmd \/ WRun \/ WReadOut \/ WFinally \/ ApiWavToUlawReturn
    \/ ApiPlayUlaw \/ PConvert \/ PPlay \/ PFallback \/ PFinally \/ ApiPlayUlawReturn
    \/ MainStart \/ MainInfoReturn \/ MainConvert \/ MainConvertReturn
    \/ MainPlay \/ MainPlayReturn

\* The harness: direct calls of the three functions and runs of the script.
Spec == Init /\ [][Next]_vars

InitCodec ==
    /\ env = [converter |-> "present", play |-> "present", afplay |-> "present"]
    /\ fs = {}
    /\ WIdle /\ IIdle /\ PIdle /\ MIdle
    /\ cpc = "in" /\ sample \in PcmMin..PcmMax /\ code = 0 /\ decoded = 0

NextCodec == CodecEncode \/ CodecDecode

\* The codec applied to every 16-bit sample: encode, then decode.
SpecCodec == InitCodec /\ [][NextCodec]_vars

\* ------------------------------------------------------------------ claims

WRunning == {"detect", "wait_info", "read", "mono", "scale", "write", "cmd",
             "run", "readout", "finally"}
IRunning == {"try", "finally"}
PRunning == {"convert", "play", "fallback", "finally"}

PlayerStarted == pplay \in {"ok", "failed"} \/ pafplay \in {"ok", "failed"}

\* C1: in play_ulaw, when the ulaw2wav conversion has succeeded and 'play'
\* is not installed, the call goes on to afplay on the converted WAV, and it
\* returns normally when afplay succeeds.
C1_FallbackToAfplay ==
    /\ (pconv = "ok" /\ pplay = "missing" /\ ppc = "fallback") => pexc = "none"
    /\ (pconv = "ok" /\ pplay = "missing" /\ ppc \in {"finally", "done"})
          => pafplay # "not_run"
    /\ (pconv = "ok" /\ pplay = "missing" /\ ppc = "done" /\ pafplay = "ok")
          => pres.kind = "return"

\* C1 witness: sox is missing after a good conversion, afplay played the
\* file and the call returned.
C1_Witness ==
    /\ ppc = "done" /\ pconv = "ok" /\ pplay = "missing"
    /\ pafplay = "ok" /\ pres.kind = "return"

\* C2: wav_to_ulaw returns bytes only when the converter exited with code
\* 0, and then the bytes the converter wrote; when the converter exits
\* non-zero the call raises, returns no bytes and the output file is gone.
C2_CompletesOrFailsAtomically ==
    wpc = "done" =>
        /\ wres.kind = "return" =>
              (wproc.launched /\ wproc.rc = 0 /\ wres.bytes = ulawFile)
        /\ (wproc.launched /\ wproc.rc # 0) =>
              (wres.kind = "raise" /\ wres.bytes = NoBytes /\ "w_ulaw" \notin fs)

\* C2 witness: a call with anti_aliasing_type=9 has ended, the converter
\* having exited non-zero.
C2_Witness ==
    /\ wpc = "done" /\ wargs.anti_aliasing_type = 9
    /\ wproc.launched /\ wproc.rc # 0
    /\ wres.kind = "raise" /\ "w_ulaw" \notin fs

\* C3 (as claimed): when the converter rejects the configuration, no audio
\* has been read, downmixed, rescaled or written to the PCM file by
\* wav_to_ulaw.
C3_RejectedBeforeProcessing ==
    (wproc.launched /\ wproc.rc = 1) => wlog = << >>

\* C4: the command line holds --chebyshev-ripple exactly when
\* anti_aliasing_type is 3, and then followed by str(chebyshev_ripple).
C4_RippleIffChebyshev ==
    cmd # << >> =>
        /\ HasFlag(cmd, "--chebyshev-ripple") <=> (wargs.anti_aliasing_type = 3)
        /\ wargs.anti_aliasing_type = 3 =>
              FlagValue(cmd, "--chebyshev-ripple") = PyFloatStr(wargs.chebyshev_ripple)

\* C4 witness: a Chebyshev call with a ripple of 0.5 has built its command.
C4_Witness ==
    /\ cmd # << >> /\ wargs.anti_aliasing_type = 3
    /\ FlagValue(cmd, "--chebyshev-ripple") = "0.5"

\* C5: decode(encode(x)) differs from x by at most one quantization step of
\* the segment that contains x, for every 16-bit sample x.
C5_RoundTripWithinStep ==
    cpc = "decoded" =>
        Abs(decoded - sample)
            <= Step(Segment((IF Abs(sample) > CLIP THEN CLIP ELSE Abs(sample)) + BIAS))

\* C5 witness: the most negative sample has gone through the codec, and
\* came back clipped.
C5_Witness ==
    cpc = "decoded" /\ sample = PcmMin /\ decoded = -32124

\* C6 (as claimed): a call that overrides nothing, through the signature's
\* defaults or through DEFAULT_CONFIG, invokes the converter with
\* low_pass=3400, high_pass=200, normalize=0.95, ratio=1.5, threshold=0.5,
\* window=64, aa_ratio=0.95, type=Butterworth, order=4.
C6_DefaultsAsSpecified ==
    (cmd # << >> /\ worigin \in {"signature", "DEFAULT_CONFIG"}) =>
        /\ FlagValue(cmd, "--low-pass") = "3400"
        /\ FlagValue(cmd, "--high-pass") = "200"
        /\ FlagValue(cmd, "--normalize") = "0.95"
        /\ FlagValue(cmd, "--compress-ratio") = "1.5"
        /\ FlagValue(cmd, "--compress-threshold") = "0.5"
        /\ FlagValue(cmd, "--window-size") = "64"
        /\ FlagValue(cmd, "--anti-aliasing-ratio") = "0.95"
        /\ FlagValue(cmd, "--anti-aliasing-type") = "1"
        /\ FlagValue(cmd, "--filter-order") = "4"

\* C7: --sample-rate carries the rate of the input WAV when
\* input_sample_rate is 0 and the caller's input_sample_rate otherwise; it
\* is never 0, and under auto-detect it is the rate of the PCM file handed
\* to the converter.
C7_SampleRatePassed ==
    cmd # << >> =>
        /\ FlagValue(cmd, "--sample-rate") =
              (IF wargs.input_sample_rate = 0 THEN PyIntStr(wwav.rate)
                                              ELSE PyIntStr(wargs.input_sample_rate))
        /\ FlagValue(cmd, "--sample-rate") # "0"
        /\ wargs.input_sample_rate = 0 =>
              (pcmFile.written /\ FlagValue(cmd, "--sample-rate") = PyIntStr(pcmFile.rate))

\* C7 witness: an auto-detect call on a 44100 Hz stereo file has built its
\* command.
C7_Witness ==
    /\ cmd # << >> /\ wargs.input_sample_rate = 0
    /\ wwav.rate = 44100 /\ wwav.channels = 2
    /\ FlagValue(cmd, "--sample-rate") = "44100"

\* C8 (as claimed): in the 'Playing results' loop the bytes played for an
\* entry of results are the bytes its own conversion returned, and the
\* window size is that entry's.
C8_PlaysOwnOutput ==
    mpc = "playing" =>
        /\ pargs.bytes = outputs[idx]
        /\ pargs.window_size = results[idx].params.window_size

\* C9: while a call of wav_to_ulaw, get_wav_info or play_ulaw is still in
\* its try block or about to run its finally block, all its temporary files
\* exist; once the call has ended, none of them does.
C9_TempFilesRemoved ==
    /\ wpc \in WRunning => WavToUlawFiles \subseteq fs
    /\ wpc \in {"done", "idle"} => WavToUlawFiles \cap fs = {}
    /\ ipc \in IRunning => InfoFiles \subseteq fs
    /\ ipc \in {"done", "idle"} => InfoFiles \cap fs = {}
    /\ ppc \in PRunning => PlayFiles \subseteq fs
    /\ ppc \in {"done", "idle"} => PlayFiles \cap fs = {}

\* C9 witness: a call of wav_to_ulaw has ended with the converter's failure
\* and no temporary file is left.
C9_Witness ==
    /\ wpc = "done" /\ wres.kind = "raise" /\ wres.exc = "CalledProcessError"
    /\ fs = {}

\* C10 (as claimed): a player is started only after the conversion has
\* succeeded; when the converter cannot be launched or exits non-zero, no
\* player is started and the call raises.
C10_PlayerOnlyAfterConversion ==
    /\ PlayerStarted => pconv = "ok"
    /\ (ppc = "done" /\ pconv \in {"missing", "failed"}) =>
          (~PlayerStarted /\ pres.kind = "raise")

====
